---- MODULE Spec2Model ----
(***************************************************************************)
(* Model of app.py: the MCQ validator (_validate_mcq_list), the JSON      *)
(* extraction helper (extract_json_substring), the generation client      *)
(* (call_perplexity_json), the retry loop (Question_mcqs_generator) and   *)
(* the /generate request handler (generate_mcqs).                         *)
(***************************************************************************)
EXTENDS Integers, Sequences, FiniteSets, TLC

VARIABLES
  \* _validate_mcq_list: its argument, its result, the result of a second call
  cand, vres, vres2, vpc,
  \* call_perplexity_json: the HTTP response and what the call did with it
  resp, outcome, cpc,
  \* Question_mcqs_generator: arguments, locals and position in the loop
  max_retries, num_questions, attempt, pc, raw, last_error, result, raised,
  \* bookkeeping of the run: client calls, backoff sleeps, the attempt that
  \* last wrote last_error, the strategy that decided the current attempt,
  \* whether every client call so far raised RuntimeError
  calls, sleeps, errAttempt, path, allFailed,
  \* generate_mcqs: the uploads/ and results/ folders, and for each request
  \* in flight its upload and form, its position, its locals and its reply
  uploads, results, req, rpc, text, mcqs, status

vvars == <<cand, vres, vres2, vpc>>
cvars == <<resp, outcome, cpc>>
ovars == <<max_retries, num_questions, attempt, pc, raw, last_error, result,
           raised, calls, sleeps, errAttempt, path, allFailed>>
rvars == <<uploads, results, req, rpc, text, mcqs, status>>

(***************************************************************************)
(* Strings are sequences of characters; " " is the whitespace character.  *)
(***************************************************************************)
RECURSIVE LStrip(_)
LStrip(s) == IF s # <<>> /\ Head(s) = " " THEN LStrip(Tail(s)) ELSE s

RECURSIVE RStrip(_)
RStrip(s) ==
  IF s # <<>> /\ s[Len(s)] = " " THEN RStrip(SubSeq(s, 1, Len(s) - 1)) ELSE s

\* str.strip()
Strip(s) == RStrip(LStrip(s))

(***************************************************************************)
(* JSON values.  Every value is a record [t, s, items, fields]:           *)
(*   t = "null" | "num" | "str" | "list" | "obj"                          *)
(*   s      the characters of a string                                    *)
(*   items  the elements of an array                                      *)
(*   fields the members of an object, in insertion order, as <<key, v>>   *)
(***************************************************************************)
JNull == [t |-> "null", s |-> <<>>, items |-> <<>>, fields |-> <<>>]
JNum == [t |-> "num", s |-> <<>>, items |-> <<>>, fields |-> <<>>]
JStr(s) == [t |-> "str", s |-> s, items |-> <<>>, fields |-> <<>>]
JList(xs) == [t |-> "list", s |-> <<>>, items |-> xs, fields |-> <<>>]
JObj(fs) == [t |-> "obj", s |-> <<>>, items |-> <<>>, fields |-> fs]

\* key in d
HasKey(d, key) == \E i \in 1..Len(d.fields) : d.fields[i][1] = key

\* d.get(key): the member's value, None (JNull) when the key is absent
DictGet(d, key) ==
  IF HasKey(d, key)
  THEN d.fields[CHOOSE i \in 1..Len(d.fields) : d.fields[i][1] = key][2]
  ELSE JNull

\* Python truthiness of a JSON value ("not q" is its negation)
Truthy(v) ==
  CASE v.t = "null" -> FALSE
    [] v.t = "str" -> v.s # <<>>
    [] v.t = "list" -> v.items # <<>>
    [] v.t = "obj" -> v.fields # <<>>
    [] OTHER -> TRUE

OptionKeys == <<"A", "B", "C", "D">>

CorrectLetters == {JStr(<<OptionKeys[i]>>) : i \in 1..Len(OptionKeys)}

(***************************************************************************)
(* _validate_mcq_list: one iteration of the loop body for element `item`  *)
(* at (zero-based) index i.  The result is either the error raised or the *)
(* record appended to `clean`.                                            *)
(***************************************************************************)
VErr(i, what, key) == [ok |-> FALSE, i |-> i, what |-> what, key |-> key, rec |-> JNull]
VRec(i, r) == [ok |-> TRUE, i |-> i, what |-> "", key |-> "", rec |-> r]

\* the first of A, B, C, D whose option is missing, not a string or blank
RECURSIVE FirstBadOption(_, _)
FirstBadOption(opts, k) ==
  IF k > Len(OptionKeys) THEN 0
  ELSE IF \/ ~HasKey(opts, OptionKeys[k])
          \/ DictGet(opts, OptionKeys[k]).t # "str"
          \/ Strip(DictGet(opts, OptionKeys[k]).s) = <<>>
       THEN k
       ELSE FirstBadOption(opts, k + 1)

NormalizedOptions(opts) ==
  JObj([k \in 1..Len(OptionKeys) |->
          <<OptionKeys[k], JStr(Strip(DictGet(opts, OptionKeys[k]).s))>>])

ValidateItem(i, item) ==
  IF item.t # "obj" THEN VErr(i, "not an object", "")
  ELSE
    LET q == DictGet(item, "question")
        opts == DictGet(item, "options")
        corr == DictGet(item, "correct")
    IN IF ~Truthy(q) \/ q.t # "str" THEN VErr(i, "question", "")
       ELSE IF opts.t # "obj" THEN VErr(i, "options", "")
       ELSE IF FirstBadOption(opts, 1) # 0
            THEN VErr(i, "option", OptionKeys[FirstBadOption(opts, 1)])
       ELSE IF corr \notin CorrectLetters THEN VErr(i, "correct", "")
       ELSE VRec(i, JObj(<< <<"question", JStr(Strip(q.s))>>,
                            <<"options", NormalizedOptions(opts)>>,
                            <<"correct", corr>> >>))

\* the loop with an invalid element skipped instead of failing the call
RECURSIVE ValidateFromSkipping(_, _, _)
ValidateFromSkipping(xs, k, clean) ==
  IF k > Len(xs) THEN [ok |-> TRUE, list |-> clean, err |-> VErr(0, "", "")]
  ELSE LET r == ValidateItem(k - 1, xs[k])
       IN IF ~r.ok THEN ValidateFromSkipping(xs, k + 1, clean)
          ELSE ValidateFromSkipping(xs, k + 1, Append(clean, r.rec))

\* the for loop over the list xs: elements k.., `clean` accumulated so far
RECURSIVE ValidateFrom(_, _, _)
ValidateFrom(xs, k, clean) ==
  IF k > Len(xs) THEN [ok |-> TRUE, list |-> clean, err |-> VErr(0, "", "")]
  ELSE LET r == ValidateItem(k - 1, xs[k])
       IN IF ~r.ok THEN [ok |-> FALSE, list |-> <<>>, err |-> r]
          ELSE ValidateFrom(xs, k + 1, Append(clean, r.rec))

\* _validate_mcq_list(mcqs) for any JSON value mcqs
ValidateMcqList(v) ==
  IF v.t # "list"
  THEN [ok |-> FALSE, list |-> <<>>, err |-> VErr(0, "MCQs is not a list", "")]
  ELSE ValidateFrom(v.items, 1, <<>>)

(***************************************************************************)
(* Candidate lists handed to the validator.                               *)
(***************************************************************************)
MaxItems == 2

Mcq(q, opts, corr) ==
  JObj(<< <<"question", q>>, <<"options", opts>>, <<"correct", corr>> >>)

Options4(a, b, c, d) == JObj(<< <<"A", a>>, <<"B", b>>, <<"C", c>>, <<"D", d>> >>)

TextA == JStr(<<"a">>)
TextPadded == JStr(<<" ", "a", " ">>)
TextBlank == JStr(<<" ">>)
TextEmpty == JStr(<<>>)

GoodOptions == Options4(TextA, TextA, TextA, TextA)

QuestionValues == {JNull, JNum, TextEmpty, TextBlank, TextA, TextPadded}

OptionsValues ==
  { JNull, JList(<<>>),
    Options4(TextPadded, TextA, JStr(<<"a", " ">>), JStr(<<" ", "a">>)),
    Options4(TextA, TextBlank, TextA, TextA),
    Options4(TextA, TextA, JNum, TextA),
    Options4(TextA, TextA, TextA, TextEmpty),
    JObj(<< <<"B", TextA>>, <<"C", TextA>>, <<"D", TextA>> >>),
    JObj(<< <<"E", TextA>>, <<"D", TextPadded>>, <<"C", TextA>>,
            <<"B", TextA>>, <<"A", TextA>> >>) }

CorrectValues == {JNull, JNum, JStr(<<"D">>), JStr(<<"E">>), JStr(<<"a">>)}

Elements ==
  {Mcq(q, GoodOptions, JStr(<<"A">>)) : q \in QuestionValues}
    \cup {Mcq(TextA, o, JStr(<<"B">>)) : o \in OptionsValues}
    \cup {Mcq(TextPadded, GoodOptions, c) : c \in CorrectValues}
    \cup {JObj(<<>>), JList(<<>>), JNum}

RECURSIVE SeqsUpTo(_, _)
SeqsUpTo(S, n) ==
  IF n = 0 THEN {<<>>}
  ELSE LET shorter == SeqsUpTo(S, n - 1)
       IN shorter \cup {Append(xs, x) : xs \in shorter, x \in S}

Candidates == {JList(xs) : xs \in SeqsUpTo(Elements, MaxItems)} \cup {JNum, JObj(<<>>)}

NoResult == [ok |-> FALSE, list |-> <<>>, err |-> VErr(0, "", "")]

ValidatorInit ==
  /\ cand \in Candidates
  /\ vres = NoResult
  /\ vres2 = NoResult
  /\ vpc = "input"

\* validated = _validate_mcq_list(mcqs)
Validate ==
  /\ vpc = "input"
  /\ vres' = ValidateMcqList(cand)
  /\ vpc' = "validated"
  /\ UNCHANGED <<cand, vres2, cvars, ovars, rvars>>

\* _validate_mcq_list applied to a list it returned
Revalidate ==
  /\ vpc = "validated"
  /\ vres.ok
  /\ vres2' = ValidateMcqList(JList(vres.list))
  /\ vpc' = "revalidated"
  /\ UNCHANGED <<cand, vres, cvars, ovars, rvars>>

(***************************************************************************)
(* Response texts.  A text is a sequence of lexemes: "[", "]", ",", the   *)
(* whitespace " " and "G", the text of one JSON object (it starts with    *)
(* "{" and ends with "}" and holds no bracket).                           *)
(***************************************************************************)
Lexemes == {"[", "]", ",", "G"}

\* a text with whitespace before and after it
Padded(t) == <<" ">> \o t \o <<" ">>

\* the object the lexeme "G" spells
GObject ==
  Mcq(TextPadded,
      Options4(TextPadded, TextA, JStr(<<"a", " ">>), JStr(<<" ", "a">>)),
      JStr(<<"C">>))

\* the object the lexeme "E" spells: a chat-completion envelope whose
\* content path yields nothing
EnvelopeObject == JObj(<< <<"choices", JList(<<JObj(<<>>)>>)>> >>)

ParseError == [ok |-> FALSE, val |-> JNull, next |-> 0]
Parsed(v, n) == [ok |-> TRUE, val |-> v, next |-> n]

RECURSIVE SkipWs(_, _)
SkipWs(s, i) == IF i <= Len(s) /\ s[i] = " " THEN SkipWs(s, i + 1) ELSE i

\* json decoder: the value starting at s[i]; ParseElems reads the rest of an
\* array after one element
RECURSIVE ParseValue(_, _), ParseElems(_, _, _)
ParseValue(s, i) ==
  IF i > Len(s) THEN ParseError
  ELSE IF s[i] = "G" THEN Parsed(GObject, i + 1)
  ELSE IF s[i] = "E" THEN Parsed(EnvelopeObject, i + 1)
  ELSE IF s[i] = "["
       THEN LET j == SkipWs(s, i + 1)
            IN IF j <= Len(s) /\ s[j] = "]" THEN Parsed(JList(<<>>), j + 1)
               ELSE LET r == ParseValue(s, j)
                    IN IF r.ok THEN ParseElems(s, SkipWs(s, r.next), <<r.val>>)
                       ELSE ParseError
  ELSE ParseError

ParseElems(s, i, acc) ==
  IF i > Len(s) THEN ParseError
  ELSE IF s[i] = "]" THEN Parsed(JList(acc), i + 1)
  ELSE IF s[i] = ","
       THEN LET r == ParseValue(s, SkipWs(s, i + 1))
            IN IF r.ok THEN ParseElems(s, SkipWs(s, r.next), Append(acc, r.val))
               ELSE ParseError
  ELSE ParseError

\* json.loads(s): one value, whitespace around it, nothing else
JsonLoads(s) ==
  LET r == ParseValue(s, SkipWs(s, 1))
  IN IF r.ok /\ SkipWs(s, r.next) > Len(s) THEN r ELSE ParseError

Positions(s, lex) == {i \in 1..Len(s) : s[i] = lex}

Min(S) == CHOOSE x \in S : \A y \in S : x <= y
Max(S) == CHOOSE x \in S : \A y \in S : y <= x

NoCandidate == [found |-> FALSE, text |-> <<>>]
Candidate(t) == [found |-> TRUE, text |-> t]

\* extract_json_substring(s): r'(\[.*\])' is the span from the first "[" to
\* the last "]"; r'(\{.*\})' is the span from the first "{" to the last "}"
ExtractJsonSubstring(s) ==
  LET opens == Positions(s, "[")
      closes == Positions(s, "]")
      objs == Positions(s, "G")
  IN IF opens # {} /\ closes # {} /\ Min(opens) < Max(closes)
     THEN Candidate(SubSeq(s, Min(opens), Max(closes)))
     ELSE IF objs # {} THEN Candidate(SubSeq(s, Min(objs), Max(objs)))
     ELSE NoCandidate

(***************************************************************************)
(* call_perplexity_json.  An HTTP exchange either fails in transport      *)
(* ("neterr": requests raised, "httperr": raise_for_status raised) or     *)
(* delivers a body: `text` is resp.text, `json` whether resp.json()       *)
(* decodes it, `data` the decoded value.                                  *)
(***************************************************************************)
MaxText == 5

Texts == SeqsUpTo(Lexemes, MaxText)

\* resp.text of a chat-completion envelope is spelled by the one lexeme "E"
EnvelopeText == <<"E">>

Envelope(choices) == JObj(<< <<"choices", choices>> >>)
Choice(message) == JList(<<JObj(<< <<"message", message>> >>)>>)
Message(content) == JObj(<< <<"content", content>> >>)

Envelopes ==
  { Envelope(JList(<<>>)), Envelope(JNull), Envelope(JList(<<JNum>>)),
    Envelope(JList(<<JObj(<<>>)>>)),
    Envelope(Choice(JNull)), Envelope(Choice(JObj(<<>>))),
    Envelope(Choice(Message(JNull))), Envelope(Choice(Message(JNum))),
    JObj(<<>>) }
    \cup {Envelope(Choice(Message(JStr(t)))) : t \in Texts}
    \cup {Envelope(Choice(Message(JStr(Padded(t))))) : t \in Texts}

TransportFailure(kind) == [status |-> kind, json |-> FALSE, data |-> JNull, text |-> <<>>]
Body(t) == [status |-> "ok", json |-> JsonLoads(t).ok, data |-> JsonLoads(t).val, text |-> t]
EnvelopeBody(e) == [status |-> "ok", json |-> TRUE, data |-> e, text |-> EnvelopeText]

Responses ==
  {TransportFailure("neterr"), TransportFailure("httperr")}
    \cup {EnvelopeBody(e) : e \in Envelopes}
    \cup {Body(t) : t \in Texts}
    \cup {Body(Padded(<<x>>)) : x \in Lexemes}

Returned(t) == [kind |-> "return", text |-> t, exc |-> ""]
Raised(exc) == [kind |-> "raise", text |-> <<>>, exc |-> exc]

\* d.get(key, default)
DictGetDefault(d, key, default) == IF HasKey(d, key) THEN DictGet(d, key) ELSE default

\* data.get("choices", [{}])[0].get("message", {}).get("content") and what
\* follows it, for a decoded body `data`
ContentOutcome(data, body) ==
  IF data.t # "obj" THEN Raised("AttributeError")
  ELSE LET choices == DictGetDefault(data, "choices", JList(<<JObj(<<>>)>>))
       IN IF choices.t \in {"null", "num"} THEN Raised("TypeError")
          ELSE IF choices.t = "obj" THEN Raised("KeyError")
          ELSE IF choices.t = "str"
               THEN IF choices.s = <<>> THEN Raised("IndexError")
                    ELSE Raised("AttributeError")
          ELSE IF choices.items = <<>> THEN Raised("IndexError")
          ELSE LET first == choices.items[1]
               IN IF first.t # "obj" THEN Raised("AttributeError")
                  ELSE LET message == DictGetDefault(first, "message", JObj(<<>>))
                       IN IF message.t # "obj" THEN Raised("AttributeError")
                          ELSE LET content == DictGet(message, "content")
                               IN IF content.t = "null" THEN Returned(body)
                                  ELSE IF content.t = "str"
                                       THEN Returned(Strip(content.s))
                                  ELSE Raised("AttributeError")

\* The outcomes of call_perplexity_json on response r.  The exception that
\* resp.json() raises on an undecodable body is a ValueError; in requests
\* releases where it is also a RequestException the first except clause
\* takes it, in the others the second one does.
CallPerplexityJson(r) ==
  IF r.status # "ok" THEN {Raised("RuntimeError")}
  ELSE IF ~r.json THEN {Raised("RuntimeError"), Returned(r.text)}
  ELSE {ContentOutcome(r.data, r.text)}

\* what call_perplexity_json can do, over all responses
ClientOutcomes == UNION {CallPerplexityJson(r) : r \in Responses}

NoOutcome == [kind |-> "none", text |-> <<>>, exc |-> ""]

ClientInit ==
  /\ resp \in Responses
  /\ outcome = NoOutcome
  /\ cpc = "request"

\* one call of call_perplexity_json
Call ==
  /\ cpc = "request"
  /\ outcome' \in CallPerplexityJson(resp)
  /\ cpc' = "done"
  /\ UNCHANGED <<resp, vvars, ovars, rvars>>

(***************************************************************************)
(* Question_mcqs_generator.                                               *)
(*   pc = "call"     about to call call_perplexity_json(prompt)           *)
(*   pc = "parse"    raw obtained, about to json.loads(raw)               *)
(*   pc = "extract"  in the json.JSONDecodeError handler                  *)
(*   pc = "next"     at "if attempt < max_retries"                        *)
(*   pc = "Succeeded" returned; "Exhausted" raised the final RuntimeError;*)
(*   pc = "Crashed"  an exception left the function from inside the loop  *)
(***************************************************************************)
MaxRetries == 1

NoError == [stage |-> "None", what |-> "", i |-> 0, key |-> ""]
\* last_error = str(e)
TransportError == [stage |-> "API request failed", what |-> "", i |-> 0, key |-> ""]
\* last_error = "No JSON found in API output."
NoJsonError == [stage |-> "No JSON found in API output", what |-> "", i |-> 0, key |-> ""]
\* last_error = f"JSON extraction/parse failed: {e}..."; the message also
\* echoes candidate[:2000], a part of raw, which is not kept here
ExtractionError(e) ==
  [stage |-> "JSON extraction/parse failed", what |-> e.what, i |-> e.i, key |-> e.key]
\* last_error = f"Validation failed: {e}"
ValidationError(e) ==
  [stage |-> "Validation failed", what |-> e.what, i |-> e.i, key |-> e.key]

JsonDecodeError == VErr(0, "JSONDecodeError", "")
TopLevelNotList == VErr(0, "Top-level JSON is not a list", "")

NoException == [type |-> "None", msg |-> NoError]
\* RuntimeError(f"Failed to generate valid MCQs. Last error: {last_error}")
ExhaustedError(le) == [type |-> "RuntimeError: Failed to generate valid MCQs", msg |-> le]
Uncaught(exc) == [type |-> exc, msg |-> NoError]

OrchestratorInit ==
  /\ max_retries \in 0..MaxRetries
  /\ num_questions \in {1, 2}
  /\ attempt = 0
  /\ pc = "call"
  /\ raw = <<>>
  /\ last_error = NoError
  /\ result = <<>>
  /\ raised = NoException
  /\ calls = 0
  /\ sleeps = 0
  /\ errAttempt = 0
  /\ path = "none"
  /\ allFailed = TRUE

\* raw = call_perplexity_json(prompt), with "except RuntimeError as e"
CallClient ==
  /\ pc = "call"
  /\ calls' = calls + 1
  /\ \E o \in ClientOutcomes :
       \/ /\ o.kind = "return"
          /\ raw' = o.text
          /\ pc' = "parse"
          /\ path' = "none"
          /\ allFailed' = FALSE
          /\ UNCHANGED <<last_error, errAttempt, raised>>
       \/ /\ o.kind = "raise" /\ o.exc = "RuntimeError"
          /\ last_error' = TransportError
          /\ errAttempt' = attempt
          /\ pc' = "next"
          /\ path' = "transport"
          /\ UNCHANGED <<raw, raised, allFailed>>
       \/ /\ o.kind = "raise" /\ o.exc # "RuntimeError"
          /\ raised' = Uncaught(o.exc)
          /\ pc' = "Crashed"
          /\ path' = "none"
          /\ allFailed' = FALSE
          /\ UNCHANGED <<raw, last_error, errAttempt>>
  /\ UNCHANGED <<max_retries, num_questions, attempt, result, sleeps, vvars, cvars, rvars>>

\* the inner try with a successful list also required to hold num_questions
\* records
StrictParseCountMatching ==
  /\ pc = "parse"
  /\ LET p == JsonLoads(raw)
         v == ValidateMcqList(p.val)
     IN IF ~p.ok
        THEN /\ pc' = "extract"
             /\ UNCHANGED <<path, last_error, errAttempt, result>>
        ELSE /\ path' = "strict"
             /\ IF p.val.t = "list" /\ v.ok /\ Len(v.list) = num_questions
                THEN /\ result' = v.list
                     /\ pc' = "Succeeded"
                     /\ UNCHANGED <<last_error, errAttempt>>
                ELSE /\ last_error' = ValidationError(IF p.val.t # "list"
                                                      THEN TopLevelNotList ELSE v.err)
                     /\ errAttempt' = attempt
                     /\ pc' = "next"
                     /\ UNCHANGED result
  /\ UNCHANGED <<max_retries, num_questions, attempt, raw, raised, calls,
                 sleeps, allFailed, vvars, cvars, rvars>>

\* the inner try with every ValueError sent to the extraction handler
StrictParseLenient ==
  /\ pc = "parse"
  /\ LET p == JsonLoads(raw)
         v == ValidateMcqList(p.val)
     IN IF p.ok /\ p.val.t = "list" /\ v.ok
        THEN /\ path' = "strict"
             /\ result' = v.list
             /\ pc' = "Succeeded"
             /\ UNCHANGED <<last_error, errAttempt>>
        ELSE /\ pc' = "extract"
             /\ UNCHANGED <<path, last_error, errAttempt, result>>
  /\ UNCHANGED <<max_retries, num_questions, attempt, raw, raised, calls,
                 sleeps, allFailed, vvars, cvars, rvars>>

\* the inner try: json.loads(raw), the list check, _validate_mcq_list, with
\* "except json.JSONDecodeError" and "except Exception as e"
StrictParse ==
  /\ pc = "parse"
  /\ LET p == JsonLoads(raw)
         v == ValidateMcqList(p.val)
     IN IF ~p.ok
        THEN /\ pc' = "extract"
             /\ UNCHANGED <<path, last_error, errAttempt, result>>
        ELSE /\ path' = "strict"
             /\ IF p.val.t # "list"
                THEN /\ last_error' = ValidationError(TopLevelNotList)
                     /\ errAttempt' = attempt
                     /\ pc' = "next"
                     /\ UNCHANGED result
                ELSE IF v.ok
                THEN /\ result' = v.list
                     /\ pc' = "Succeeded"
                     /\ UNCHANGED <<last_error, errAttempt>>
                ELSE /\ last_error' = ValidationError(v.err)
                     /\ errAttempt' = attempt
                     /\ pc' = "next"
                     /\ UNCHANGED result
  /\ UNCHANGED <<max_retries, num_questions, attempt, raw, raised, calls,
                 sleeps, allFailed, vvars, cvars, rvars>>

\* the handler with no assignment to last_error when no candidate is found
ExtractSilent ==
  /\ pc = "extract"
  /\ path' = "extraction"
  /\ LET c == ExtractJsonSubstring(raw)
         p == JsonLoads(c.text)
         v == ValidateMcqList(p.val)
     IN IF c.found /\ c.text # <<>>
        THEN IF p.ok /\ v.ok
             THEN /\ result' = v.list
                  /\ pc' = "Succeeded"
                  /\ UNCHANGED <<last_error, errAttempt>>
             ELSE /\ last_error' = ExtractionError(IF p.ok THEN v.err
                                                   ELSE JsonDecodeError)
                  /\ errAttempt' = attempt
                  /\ pc' = "next"
                  /\ UNCHANGED result
        ELSE /\ pc' = "next"
             /\ UNCHANGED <<last_error, errAttempt, result>>
  /\ UNCHANGED <<max_retries, num_questions, attempt, raw, raised, calls,
                 sleeps, allFailed, vvars, cvars, rvars>>

\* the json.JSONDecodeError handler: extract_json_substring(raw), then
\* json.loads(candidate) and _validate_mcq_list under "except Exception as e"
Extract ==
  /\ pc = "extract"
  /\ path' = "extraction"
  /\ LET c == ExtractJsonSubstring(raw)
         p == JsonLoads(c.text)
         v == ValidateMcqList(p.val)
     IN IF c.found /\ c.text # <<>>
        THEN IF ~p.ok
             THEN /\ last_error' = ExtractionError(JsonDecodeError)
                  /\ errAttempt' = attempt
                  /\ pc' = "next"
                  /\ UNCHANGED result
             ELSE IF v.ok
             THEN /\ result' = v.list
                  /\ pc' = "Succeeded"
                  /\ UNCHANGED <<last_error, errAttempt>>
             ELSE /\ last_error' = ExtractionError(v.err)
                  /\ errAttempt' = attempt
                  /\ pc' = "next"
                  /\ UNCHANGED result
        ELSE /\ last_error' = NoJsonError
             /\ errAttempt' = attempt
             /\ pc' = "next"
             /\ UNCHANGED result
  /\ UNCHANGED <<max_retries, num_questions, attempt, raw, raised, calls,
                 sleeps, allFailed, vvars, cvars, rvars>>

\* the retry test off by one
AttemptsRemainInclusive == attempt <= max_retries

\* if attempt < max_retries
AttemptsRemain == attempt < max_retries

\* for attempt in range(max_retries + 1)
InLoopRange(k) == k < max_retries + 1

\* time.sleep(1.5), then the for loop's next iteration, or the raise after
\* the loop when the range is used up.  raw is not read again before the
\* next call assigns it, so the new iteration starts without it.
Backoff ==
  /\ pc = "next"
  /\ AttemptsRemain
  /\ sleeps' = sleeps + 1
  /\ IF InLoopRange(attempt + 1)
     THEN /\ attempt' = attempt + 1
          /\ pc' = "call"
          /\ raw' = <<>>
          /\ path' = "none"
          /\ UNCHANGED raised
     ELSE /\ raised' = ExhaustedError(last_error)
          /\ pc' = "Exhausted"
          /\ UNCHANGED <<attempt, raw, path>>
  /\ UNCHANGED <<max_retries, num_questions, last_error, result,
                 calls, errAttempt, allFailed, vvars, cvars, rvars>>

\* break, then raise RuntimeError(f"... Last error: {last_error}")
Exhaust ==
  /\ pc = "next"
  /\ ~AttemptsRemain
  /\ raised' = ExhaustedError(last_error)
  /\ pc' = "Exhausted"
  /\ UNCHANGED <<max_retries, num_questions, attempt, raw, last_error, result,
                 calls, sleeps, errAttempt, path, allFailed, vvars, cvars, rvars>>

(***************************************************************************)
(* generate_mcqs, the handler of POST /generate, for requests served      *)
(* concurrently.  A file name is [stem, ext]; a document is the string it *)
(* holds; the uploads are text files or of a kind that is not allowed.    *)
(* rpc[r]: "start" before file.save, "saved" before               *)
(* extract_text_from_file, "ready" before Question_mcqs_generator,        *)
(* "generated" before the exporters, "done" after the reply.              *)
(***************************************************************************)
Requests == {1, 2}

FileNames ==
  { [stem |-> "a", ext |-> "txt"], [stem |-> "b", ext |-> "txt"],
    [stem |-> "a", ext |-> "exe"] }

Documents == {<<"x">>, <<"y", " ">>, <<" ">>}

\* request.form.get('num_questions', '0')
FormValues == {"abc", "0", "1", "2"}

\* app.config['ALLOWED_EXTENSIONS']
AllowedExtensions == {"pdf", "txt", "docx"}

\* allowed_file(filename)
AllowedFile(name) == name.ext \in AllowedExtensions

\* int(s): ok is FALSE where int raises ValueError
IntOf(s) ==
  CASE s = "0" -> [ok |-> TRUE, n |-> 0]
    [] s = "1" -> [ok |-> TRUE, n |-> 1]
    [] s = "2" -> [ok |-> TRUE, n |-> 2]
    [] OTHER -> [ok |-> FALSE, n |-> 0]

NoFile == [exists |-> FALSE, data |-> <<>>]
File(d) == [exists |-> TRUE, data |-> d]

\* extract_text_from_file(file_path) for a txt file: file.read().strip()
ExtractTextFromFile(folder, name) == Strip(folder[name].data)

\* the list Question_mcqs_generator returns is the remote model's answer to
\* a prompt built from input_text and num_questions: it is named by them
NoMcqs == [input_text |-> <<>>, num_questions |-> 0]
McqsFor(t, n) == [input_text |-> t, num_questions |-> n]

RequestsInit ==
  /\ req \in [Requests -> [name : FileNames, doc : Documents, form : FormValues]]
  /\ uploads = [f \in FileNames |-> NoFile]
  /\ results = [stem \in {f.stem : f \in FileNames} |-> NoMcqs]
  /\ rpc = [r \in Requests |-> "start"]
  /\ text = [r \in Requests |-> <<>>]
  /\ mcqs = [r \in Requests |-> NoMcqs]
  /\ status = [r \in Requests |-> 0]

\* allowed_file, secure_filename, file.save(file_path)
SaveUpload ==
  \E r \in Requests :
    /\ rpc[r] = "start"
    /\ IF AllowedFile(req[r].name)
       THEN /\ uploads' = [uploads EXCEPT ![req[r].name] = File(req[r].doc)]
            /\ rpc' = [rpc EXCEPT ![r] = "saved"]
            /\ UNCHANGED status
       ELSE /\ status' = [status EXCEPT ![r] = 400]
            /\ rpc' = [rpc EXCEPT ![r] = "done"]
            /\ UNCHANGED uploads
    /\ UNCHANGED <<results, req, text, mcqs, vvars, cvars, ovars>>

\* text = extract_text_from_file(file_path), the "if not text" test and the
\* parse of num_questions
ExtractText ==
  \E r \in Requests :
    /\ rpc[r] = "saved"
    /\ text' = [text EXCEPT ![r] = ExtractTextFromFile(uploads, req[r].name)]
    /\ IF text'[r] = <<>> \/ ~IntOf(req[r].form).ok \/ IntOf(req[r].form).n <= 0
       THEN /\ status' = [status EXCEPT ![r] = 400]
            /\ rpc' = [rpc EXCEPT ![r] = "done"]
       ELSE /\ rpc' = [rpc EXCEPT ![r] = "ready"]
            /\ UNCHANGED status
    /\ UNCHANGED <<uploads, results, req, mcqs, vvars, cvars, ovars>>

\* mcqs = Question_mcqs_generator(text, num_questions, max_retries=1), with
\* "except RuntimeError" rendering error.html
Generate ==
  \E r \in Requests :
    /\ rpc[r] = "ready"
    /\ \/ /\ mcqs' = [mcqs EXCEPT ![r] = McqsFor(text[r], IntOf(req[r].form).n)]
          /\ rpc' = [rpc EXCEPT ![r] = "generated"]
          /\ UNCHANGED status
       \/ /\ status' = [status EXCEPT ![r] = 500]
          /\ rpc' = [rpc EXCEPT ![r] = "done"]
          /\ UNCHANGED mcqs
    /\ UNCHANGED <<uploads, results, req, text, vvars, cvars, ovars>>

\* save_mcqs_to_file and create_pdf to generated_mcqs_<stem>.txt/.pdf, then
\* render_template('results.html', mcqs=mcqs, ...)
Export ==
  \E r \in Requests :
    /\ rpc[r] = "generated"
    /\ results' = [results EXCEPT ![req[r].name.stem] = mcqs[r]]
    /\ status' = [status EXCEPT ![r] = 200]
    /\ rpc' = [rpc EXCEPT ![r] = "done"]
    /\ UNCHANGED <<uploads, req, text, mcqs, vvars, cvars, ovars>>

(***************************************************************************)
(* Specifications.  Each one runs one part of the program and leaves the  *)
(* variables of the others at rest.                                       *)
(***************************************************************************)
vars == <<vvars, cvars, ovars, rvars>>

ValidatorIdle == cand = JNull /\ vres = NoResult /\ vres2 = NoResult /\ vpc = "idle"
ClientIdle == resp = TransportFailure("idle") /\ outcome = NoOutcome /\ cpc = "idle"
OrchestratorIdle ==
  /\ max_retries = 0 /\ num_questions = 1 /\ attempt = 0 /\ pc = "idle"
  /\ raw = <<>> /\ last_error = NoError /\ result = <<>> /\ raised = NoException
  /\ calls = 0 /\ sleeps = 0 /\ errAttempt = 0 /\ path = "none" /\ allFailed = TRUE
RequestsIdle ==
  /\ req = <<>> /\ uploads = <<>> /\ results = <<>> /\ rpc = <<>>
  /\ text = <<>> /\ mcqs = <<>> /\ status = <<>>

\* Question_mcqs_generator
Init == OrchestratorInit /\ ValidatorIdle /\ ClientIdle /\ RequestsIdle
Next == CallClient \/ StrictParse \/ Extract \/ Backoff \/ Exhaust
Spec == Init /\ [][Next]_vars

\* _validate_mcq_list
InitValidator == ValidatorInit /\ ClientIdle /\ OrchestratorIdle /\ RequestsIdle
NextValidator == Validate \/ Revalidate
SpecValidator == InitValidator /\ [][NextValidator]_vars

\* call_perplexity_json
InitClient == ClientInit /\ ValidatorIdle /\ OrchestratorIdle /\ RequestsIdle
NextClient == Call
SpecClient == InitClient /\ [][NextClient]_vars

\* generate_mcqs, two requests at a time
InitRequests == RequestsInit /\ ValidatorIdle /\ ClientIdle /\ OrchestratorIdle
NextRequests == SaveUpload \/ ExtractText \/ Generate \/ Export
SpecRequests == InitRequests /\ [][NextRequests]_vars

(***************************************************************************)
(* Properties of Question_mcqs_generator (Spec).                          *)
(***************************************************************************)
\* What the two parsing strategies make of a raw text: the list returned,
\* or the error and the strategy that reported it.
Accepted(l) == [ok |-> TRUE, list |-> l, err |-> NoError]
Rejected(e) == [ok |-> FALSE, list |-> <<>>, err |-> e]

StrictVerdict(t) ==
  LET p == JsonLoads(t)
  IN IF p.val.t # "list" THEN Rejected(ValidationError(TopLevelNotList))
     ELSE IF ValidateMcqList(p.val).ok THEN Accepted(ValidateMcqList(p.val).list)
     ELSE Rejected(ValidationError(ValidateMcqList(p.val).err))

ExtractionVerdict(t) ==
  LET c == ExtractJsonSubstring(t)
      p == JsonLoads(c.text)
  IN IF ~c.found THEN Rejected(NoJsonError)
     ELSE IF ~p.ok THEN Rejected(ExtractionError(JsonDecodeError))
     ELSE IF ValidateMcqList(p.val).ok THEN Accepted(ValidateMcqList(p.val).list)
     ELSE Rejected(ExtractionError(ValidateMcqList(p.val).err))

Verdict(t) == IF JsonLoads(t).ok THEN StrictVerdict(t) ELSE ExtractionVerdict(t)

\* the attempt under way obtained a raw text and has finished with it
AttemptParsed == pc \in {"next", "Succeeded", "Exhausted"} /\ path \in {"strict", "extraction"}

\* C1: when every client call fails, the generator makes exactly
\* max_retries + 1 calls, one per attempt and never more, sleeps once
\* between two attempts and not after the last one, never parses or returns,
\* and ends by raising the final RuntimeError with the transport error.
C1_AlwaysFailingClient ==
  allFailed =>
    /\ pc \in {"call", "next", "Exhausted"}
    /\ attempt <= max_retries
    /\ sleeps = attempt
    /\ calls = IF pc = "call" THEN attempt ELSE attempt + 1
    /\ pc = "next" => ENABLED (Backoff \/ Exhaust)
    /\ pc = "Exhausted" =>
         /\ calls = max_retries + 1
         /\ sleeps = max_retries
         /\ raised = ExhaustedError(TransportError)
         /\ ~ENABLED Next

C1_Witness ==
  /\ pc = "Exhausted" /\ allFailed
  /\ max_retries = 1 /\ calls = 2 /\ sleeps = 1

\* C2: an attempt whose raw text parses and validates ends the run in
\* Succeeded with that list as the result, whatever its length and whatever
\* failed before; nothing runs afterwards, and one call and one sleep per
\* earlier attempt is all that happened.  An attempt that ends otherwise had
\* a raw text that does not yield a valid list.
C2_FirstValidAttemptReturns ==
  /\ pc = "Succeeded" =>
       /\ Verdict(raw).ok
       /\ result = Verdict(raw).list
       /\ calls = attempt + 1
       /\ sleeps = attempt
       /\ raised = NoException
       /\ ~ENABLED Next
  /\ AttemptParsed /\ Verdict(raw).ok => pc = "Succeeded"

C2_Witness ==
  /\ pc = "Succeeded" /\ attempt = 1 /\ path = "strict"
  /\ last_error = TransportError
  /\ Len(result) < num_questions

\* C3: no exception other than the final RuntimeError leaves the generator.
C3_OnlyExhaustedErrorSurfaces ==
  /\ pc # "Crashed"
  /\ raised # NoException => pc = "Exhausted" /\ raised = ExhaustedError(last_error)

\* C4: in Exhausted the raised error carries last_error, and last_error was
\* written by the final attempt: it is the transport error when the final
\* call failed, and otherwise the error the final raw text produces.
C4_ExhaustedCarriesFinalError ==
  pc = "Exhausted" =>
    /\ raised = ExhaustedError(last_error)
    /\ attempt = max_retries
    /\ errAttempt = attempt
    /\ last_error # NoError
    /\ last_error = IF path = "transport" THEN TransportError ELSE Verdict(raw).err

C4_Witness ==
  /\ pc = "Exhausted" /\ attempt = 1 /\ ~allFailed
  /\ last_error = NoJsonError

\* C8: the extraction handler is entered only for a raw text that json.loads
\* rejects; a raw text it accepts is decided by the strict path alone:
\* success exactly when it is a list that validates, "Validation failed"
\* otherwise.
C8_StrictFirst ==
  /\ pc = "extract" \/ path = "extraction" => ~JsonLoads(raw).ok
  /\ AttemptParsed /\ JsonLoads(raw).ok =>
       /\ path = "strict"
       /\ IF StrictVerdict(raw).ok
          THEN pc = "Succeeded" /\ result = StrictVerdict(raw).list
          ELSE pc # "Succeeded" /\ last_error = StrictVerdict(raw).err

C8_Witness ==
  /\ pc = "next" /\ path = "strict"
  /\ JsonLoads(raw).ok
  /\ ExtractJsonSubstring(raw).found
  /\ last_error.stage = "Validation failed"

(***************************************************************************)
(* Properties of _validate_mcq_list (SpecValidator).                      *)
(***************************************************************************)
TrimmedText(v) == v.t = "str" /\ v.s # <<>> /\ Strip(v.s) = v.s

\* the MCQ record shape
RecordShape(r) ==
  /\ r.t = "obj"
  /\ Len(r.fields) = 3
  /\ r.fields[1][1] = "question" /\ TrimmedText(r.fields[1][2])
  /\ r.fields[2][1] = "options"
  /\ LET o == r.fields[2][2]
     IN /\ o.t = "obj"
        /\ Len(o.fields) = Len(OptionKeys)
        /\ \A k \in 1..Len(OptionKeys) :
             o.fields[k][1] = OptionKeys[k] /\ TrimmedText(o.fields[k][2])
  /\ r.fields[3][1] = "correct" /\ r.fields[3][2] \in CorrectLetters

\* C5: every record of a returned list has the MCQ record shape.
C5_ReturnedRecordsHaveShape ==
  vpc # "input" /\ vres.ok => \A i \in 1..Len(vres.list) : RecordShape(vres.list[i])

\* C6: validating a returned list succeeds and returns the same list.
C6_ValidationIdempotent ==
  /\ vpc = "validated" /\ vres.ok => ValidateMcqList(JList(vres.list)).ok
  /\ vpc = "revalidated" => vres2.ok /\ vres2.list = vres.list

\* C7: for a list of N elements the call fails when some element is invalid,
\* wherever it sits, and otherwise returns N records, the i-th being the
\* normalized i-th element.
C7_AllOrNothingInOrder ==
  vpc # "input" /\ cand.t = "list" =>
    IF \E i \in 1..Len(cand.items) : ~ValidateItem(i - 1, cand.items[i]).ok
    THEN ~vres.ok /\ vres.list = <<>>
    ELSE /\ vres.ok
         /\ Len(vres.list) = Len(cand.items)
         /\ \A i \in 1..Len(cand.items) :
              vres.list[i] = ValidateItem(i - 1, cand.items[i]).rec

C7_Witness ==
  /\ vpc = "validated" /\ vres.ok
  /\ Len(cand.items) = 2
  /\ cand.items[1] # cand.items[2]
  /\ vres.list # cand.items

(***************************************************************************)
(* Properties of call_perplexity_json (SpecClient).                       *)
(***************************************************************************)
\* the body decodes and its choices/message/content path yields a string
HasContent(r) ==
  /\ r.json
  /\ r.data.t = "obj"
  /\ LET choices == DictGet(r.data, "choices")
     IN /\ choices.t = "list" /\ choices.items # <<>>
        /\ choices.items[1].t = "obj"
        /\ DictGet(choices.items[1], "message").t = "obj"
        /\ DictGet(DictGet(choices.items[1], "message"), "content").t = "str"

\* C10: the client raises only on a transport failure; a received response
\* whose body is malformed gives back the body text.
C10_MalformedBodyReturnsText ==
  cpc = "done" =>
    /\ outcome.kind = "raise" => resp.status # "ok"
    /\ resp.status = "ok" /\ ~HasContent(resp) => outcome = Returned(resp.text)

(***************************************************************************)
(* Properties of generate_mcqs (SpecRequests).                            *)
(***************************************************************************)
\* C9: whatever the interleaving, the text a request extracted is the text
\* of its own upload, and the MCQs it generated and rendered come from that
\* text and its own num_questions.
C9_RequestsIsolated ==
  \A r \in Requests :
    /\ rpc[r] \in {"ready", "generated"} => text[r] = Strip(req[r].doc)
    /\ mcqs[r] # NoMcqs =>
         mcqs[r] = McqsFor(Strip(req[r].doc), IntOf(req[r].form).n)

====
